---- MODULE Spec2Model ----
(***************************************************************************)
(* State-machine model of the TPL0102 dual digital potentiometer driver    *)
(* (src/TPL0102.cpp).  The driver keeps an in-memory mirror of the two     *)
(* wiper positions (_tapPointer), a selected-channel cursor, two optional  *)
(* indicator LEDs, and talks to the device over the Wire (I2C) bus.  The   *)
(* device is modelled by its three registers (wiper A, wiper B, ACR); the  *)
(* bus by the sequence of Wire calls the last driver operation made.       *)
(*                                                                         *)
(* TPL0102.h is not part of the sources at hand: the register addresses,   *)
(* the shutdown mask, the tap count and the member types are taken from    *)
(* the specification and from the way the .cpp file uses them.             *)
(*                                                                         *)
(* Left out, because they change none of the state below: the debug        *)
(* prints, the micros() timing members (_incDelay, _decDelay, _setDelay),  *)
(* Wire.begin / Wire.setClock, the float accessors wiper() and             *)
(* readValue(), and readDummyRegStatus().  Resistances are whole ohms;     *)
(* with the nominal values used no quotient falls on a rounding tie.       *)
(* Operations other than begin are taken only after the first begin:       *)
(* before it the mirror is uninitialised memory.                           *)
(***************************************************************************)
EXTENDS Integers, Sequences, FiniteSets, TLC

VARIABLES
    tapPointer,        \* _tapPointer[2]       mirror of the wiper positions
    initialState,      \* _initialState[3]     bytes read back by begin
    nominalResistance, \* _nominalResistance
    selectedChannel,   \* _selectedChannel     cursor
    ledsDefined,       \* _ledsDefined
    pins,              \* digital outputs of _boardLEDs[0], _boardLEDs[1]
    prevLEDsState,     \* _prevLEDsState[2]
    dev,               \* device registers, by register address
    bus,               \* Wire calls made by the last operation
    last,              \* the last operation: name, arguments, result
    run,               \* history: the run of identical calls ending in last
    nops               \* history: operations counted by the bounded specs

vars == <<tapPointer, initialState, nominalResistance, selectedChannel,
          ledsDefined, pins, prevLEDsState, dev, bus, last, run, nops>>

(***************************************************************************)
(* Program constants                                                       *)
(***************************************************************************)
LOW == 0
HIGH == 1

WRA == 0
WRB == 1
ACR == 16
SHUTDOWN_MASK == 64
TPL0102_TAP_NUMBER == 64

\* _regs[3]: the registers begin reads back, in order
_regs == <<WRA, WRB, ACR>>

Channels == {0, 1}
Bytes == 0..255

(***************************************************************************)
(* Bounds of the model                                                     *)
(***************************************************************************)
\* longest tracked run of identical calls (runs of inc that start at tap 0
\* are tracked MaxRun calls beyond saturation)
MaxRun == 3
\* operations per behaviour in the specification with bus failures
MaxOps == 2

\* wiper bytes <<A, B>> the device may hold when the driver is constructed
DevWiperPairs == {<<32, 0>>, <<0, TPL0102_TAP_NUMBER>>}
\* control bytes the device may hold in the general specification
DevAcrValues == {149}
\* values an uninitialised member may hold
Indeterminate == {0, 170}
\* nominal resistances passed to begin
NomResValues == {10000}
\* arguments of setTap and setValue
TapArgs == {0, 16, TPL0102_TAP_NUMBER, TPL0102_TAP_NUMBER + 1}
DesiredRs == {0, 2500, 5000, 10000, 10100}
\* the same, for the repeated call: with a resistance between two taps and
\* targets beyond one byte and below zero
RunTapArgs == TapArgs \cup {200, 255}
RunDesiredRs == DesiredRs \cup {2600, 47000, 0 - 1000}
\* the same, in the specification with bus failures
FailTapArgs == {16, TPL0102_TAP_NUMBER + 1}
FailDesiredRs == {2500}
\* channel arguments that name neither potentiometer
OtherChannels == {2, 255}
\* arguments of switchPot
StArgs == {LOW, HIGH, 2}

(***************************************************************************)
(* Integer helpers                                                         *)
(***************************************************************************)
Min(a, b) == IF a < b THEN a ELSE b
Max(a, b) == IF a > b THEN a ELSE b

\* conversion to uint8_t
Uint8(x) == x % 256

\* conversion of a received byte to char (two's complement, 8 bits)
ToChar(b) == IF Uint8(b) > 127 THEN Uint8(b) - 256 ELSE Uint8(b)

RECURSIVE OrN(_, _, _)
OrN(a, b, n) ==
    IF n = 0 THEN 0
    ELSE (IF (a % 2) + (b % 2) > 0 THEN 1 ELSE 0) + 2 * OrN(a \div 2, b \div 2, n - 1)

RECURSIVE XorN(_, _, _)
XorN(a, b, n) ==
    IF n = 0 THEN 0
    ELSE (((a % 2) + (b % 2)) % 2) + 2 * XorN(a \div 2, b \div 2, n - 1)

RECURSIVE AndN(_, _, _)
AndN(a, b, n) ==
    IF n = 0 THEN 0
    ELSE ((a % 2) * (b % 2)) + 2 * AndN(a \div 2, b \div 2, n - 1)

\* the low byte of c | m and c ^ m, c a char promoted to int
Or8(c, m) == OrN(Uint8(c), Uint8(m), 8)
Xor8(c, m) == XorN(Uint8(c), Uint8(m), 8)
And8(c, m) == AndN(Uint8(c), Uint8(m), 8)

\* round(num / den), den > 0: half away from zero
Round(num, den) ==
    IF num >= 0 THEN (2 * num + den) \div (2 * den)
    ELSE 0 - ((2 * (0 - num) + den) \div (2 * den))

(***************************************************************************)
(* The Wire bus: the calls of one operation, and what they amount to       *)
(***************************************************************************)
BeginTx == <<"beginTransmission", 0>>
WriteByte(b) == <<"write", b>>
EndTx(stop) == <<"endTransmission", IF stop THEN 1 ELSE 0>>
RequestFrom(n) == <<"requestFrom", n>>
ReadByte(b) == <<"read", b>>

\* the register writes in a call sequence: beginTransmission, write(reg),
\* write(value), endTransmission(true)
RECURSIVE RegWritesFrom(_, _)
RegWritesFrom(b, i) ==
    IF i > Len(b) THEN <<>>
    ELSE IF /\ i + 3 <= Len(b)
            /\ b[i] = BeginTx
            /\ b[i + 1][1] = "write"
            /\ b[i + 2][1] = "write"
            /\ b[i + 3] = EndTx(TRUE)
         THEN <<[reg |-> b[i + 1][2], val |-> b[i + 2][2]]>> \o RegWritesFrom(b, i + 4)
         ELSE RegWritesFrom(b, i + 1)

RegWrites(b) == RegWritesFrom(b, 1)

\* the register reads in a call sequence: beginTransmission, write(reg),
\* endTransmission(false), requestFrom(n)
RECURSIVE RegReadsFrom(_, _)
RegReadsFrom(b, i) ==
    IF i > Len(b) THEN <<>>
    ELSE IF /\ i + 3 <= Len(b)
            /\ b[i] = BeginTx
            /\ b[i + 1][1] = "write"
            /\ b[i + 2] = EndTx(FALSE)
            /\ b[i + 3][1] = "requestFrom"
         THEN <<[reg |-> b[i + 1][2], n |-> b[i + 3][2]]>> \o RegReadsFrom(b, i + 4)
         ELSE RegReadsFrom(b, i + 1)

RegReads(b) == RegReadsFrom(b, 1)

\* the calls of one register read-back; got: the device sent the byte.  The
\* register pointer is sent without a stop, the byte is requested without a
\* stop (every requestFrom of the driver passes sendStop = false), and the
\* closing endTransmission() sends the stop.
ReadCallsNoStop(reg, got, value) ==
    <<BeginTx, WriteByte(reg), EndTx(FALSE), RequestFrom(1)>>
        \o (IF got THEN <<ReadByte(value)>> ELSE <<>>)
ReadCalls(reg, got, value) ==
    <<BeginTx, WriteByte(reg), EndTx(FALSE), RequestFrom(1)>>
        \o (IF got THEN <<ReadByte(value)>> ELSE <<>>)
        \o <<EndTx(TRUE)>>

(***************************************************************************)
(* History                                                                 *)
(***************************************************************************)
Untracked == [start |-> 0 - 1, k |-> 0, writes |-> 0, clean |-> TRUE]

Done(op, ch, arg, ret, ok, got) ==
    [op |-> op, ch |-> ch, arg |-> arg, ret |-> ret, ok |-> ok, got |-> got]

\* the run after the call recorded in the primed state: same call as the one
\* before it, or a new run.  start is the position of the channel (the
\* control byte, for switchPot) before the first call of the run, writes the
\* register writes the run has issued, clean whether the device answered
\* every read and acknowledged every write of the run.
RunStart(op, ch) == IF op = "switchPot" THEN dev[ACR] ELSE tapPointer[ch]

RunCap(op, from) ==
    IF op = "inc" /\ from = 0 THEN TPL0102_TAP_NUMBER + MaxRun ELSE MaxRun

SameCall(a, b) == a.op = b.op /\ a.ch = b.ch /\ a.arg = b.arg

Tracked ==
    LET n == Len(RegWrites(bus'))
        c == last'.ok /\ last'.got
    IN  run' = IF SameCall(last, last')
               THEN IF run.k = 0 \/ run.k + 1 > RunCap(last.op, run.start)
                    THEN Untracked
                    ELSE [start |-> run.start, k |-> run.k + 1,
                          writes |-> run.writes + n, clean |-> run.clean /\ c]
               ELSE [start |-> RunStart(last'.op, last'.ch), k |-> 1,
                     writes |-> n, clean |-> c]

begun == last.op # "construct"

(***************************************************************************)
(* Pure parts of the operations                                            *)
(***************************************************************************)
\* a value stored in a cell of _tapPointer
TapCell(v) == Uint8(v)

\* _tapPointer[ch] with ch outside the array is an access past its end: a
\* read yields an indeterminate byte, a store leaves both cells of the mirror
\* as they are, and a read that follows a store yields the byte stored or an
\* indeterminate one.  (Which other member the cell overlays depends on the
\* class layout and is not tracked.)
ReadCell(ch) == IF ch \in Channels THEN {tapPointer[ch]} ELSE Indeterminate
StoreCell(ch, v) == IF ch \in Channels THEN [tapPointer EXCEPT ![ch] = v] ELSE tapPointer
ReadBack(ch, v) == IF ch \in Channels THEN {v} ELSE {v} \cup Indeterminate

wiperPointerA(ch) == WRA
wiperPointerB(ch) == WRB
wiperPointerSwapped(ch) == IF ch = 1 THEN WRA ELSE WRB
wiperPointer(ch) == IF ch = 1 THEN WRB ELSE WRA

dataWriteCalls(ch, val) ==
    <<BeginTx, WriteByte(wiperPointer(ch)), WriteByte(Uint8(val)), EndTx(TRUE)>>

\* the device after the write transaction; ok: the device acknowledged it
dataWriteDev(d, ch, val, ok) ==
    IF ok THEN [d EXCEPT ![wiperPointer(ch)] = Uint8(val)] ELSE d

\* toggleLED: the outputs after the call, from the outputs before it
toggleLEDStuck(p, ch) ==
    IF ch = 0 THEN [p EXCEPT ![0] = HIGH, ![1] = LOW]
    ELSE IF ch = 1 THEN [p EXCEPT ![1] = HIGH]
    ELSE p
toggleLED(p, ch) ==
    IF ch = 0 THEN [p EXCEPT ![0] = HIGH, ![1] = LOW]
    ELSE IF ch = 1 THEN [p EXCEPT ![1] = HIGH, ![0] = LOW]
    ELSE p

\* readRegistersStatus: _initialState after the three read-backs; answered is
\* the set of positions whose byte the device sent
readRegistersStatus(answered) ==
    [pos \in 0..2 |->
        IF pos \in answered THEN Uint8(ToChar(dev[_regs[pos + 1]]))
        ELSE initialState[pos]]

readRegistersCalls(answered) ==
    ReadCalls(_regs[1], 0 \in answered, dev[_regs[1]])
        \o ReadCalls(_regs[2], 1 \in answered, dev[_regs[2]])
        \o ReadCalls(_regs[3], 2 \in answered, dev[_regs[3]])

\* begin: the mirror of channel ch, from the bytes read back
beginTapA(init, ch) == TapCell(init[0])
beginTap(init, ch) == TapCell(init[ch])

\* inc, dec: the guards and the new positions
incGuardLe(t) == t <= TPL0102_TAP_NUMBER
incGuard(t) == t < TPL0102_TAP_NUMBER
incTap(t) ==
    LET n == TapCell(t + 1)
    IN  IF n >= TPL0102_TAP_NUMBER THEN TPL0102_TAP_NUMBER ELSE n

decGuardGe(t) == t >= 0
decGuard(t) == t > 0
decTap(t) ==
    LET n == TapCell(t - 1)
    IN  IF n <= 0 THEN 0 ELSE n

\* setValue, setTap: the targets and the test that decides on a write
setValueTargetTrunc(desiredR, nomRes) == (desiredR * TPL0102_TAP_NUMBER) \div nomRes
setValueTarget(desiredR, nomRes) == Round(desiredR * TPL0102_TAP_NUMBER, nomRes)
setTapTargetClamped(desiredTap) == Min(Uint8(desiredTap), TPL0102_TAP_NUMBER)
setTapTarget(desiredTap) == Uint8(desiredTap)
setChangedAlways(tapTarget, t) == TRUE
setChanged(tapTarget, t) == tapTarget # t

\* zeroWiper, maxWiper: the positions they force
zeroTap == TapCell(0)
maxTap == TapCell(TPL0102_TAP_NUMBER)

\* switchPot: the byte written back, from the byte read (or 0) and st
shdnInstrClear(acrValue, st) ==
    IF st = HIGH THEN Or8(acrValue, SHUTDOWN_MASK)
    ELSE IF st = LOW THEN And8(acrValue, 255 - SHUTDOWN_MASK)
    ELSE Or8(acrValue, 0)
shdnInstr(acrValue, st) ==
    IF st = HIGH THEN Or8(acrValue, SHUTDOWN_MASK)
    ELSE IF st = LOW THEN Xor8(acrValue, SHUTDOWN_MASK)
    ELSE Or8(acrValue, 0)

(***************************************************************************)
(* Initial state: after one of the four constructors                       *)
(***************************************************************************)
InitDriver ==
    /\ tapPointer \in [Channels -> Indeterminate]
    /\ initialState \in [0..2 -> Indeterminate]
    /\ nominalResistance \in Indeterminate
    /\ selectedChannel = 0
    /\ ledsDefined \in BOOLEAN
    /\ pins = IF ledsDefined THEN toggleLED([c \in Channels |-> LOW], 0)
              ELSE [c \in Channels |-> LOW]
    /\ prevLEDsState = pins
    /\ bus = <<>>
    /\ last = Done("construct", 0, 0, 0, TRUE, TRUE)
    /\ run = Untracked
    /\ nops = 0

DevInit(wipers, acrs) ==
    \E w \in wipers, c \in acrs :
        dev = (WRA :> w[1]) @@ (WRB :> w[2]) @@ (ACR :> c)

Init == InitDriver /\ DevInit(DevWiperPairs, DevAcrValues)

(***************************************************************************)
(* Operations.  ok: the device acknowledged the write transaction;         *)
(* got / answered: the device sent the byte asked for.                     *)
(***************************************************************************)
Begin(nomRes, answered) ==
    LET init == readRegistersStatus(answered)
    IN  /\ initialState' = init
        /\ nominalResistance' = nomRes
        /\ tapPointer' = [ch \in Channels |-> beginTap(init, ch)]
        /\ bus' = readRegistersCalls(answered)
        /\ last' = Done("begin", 0, nomRes, 0, TRUE, answered = 0..2)
        /\ UNCHANGED <<selectedChannel, ledsDefined, pins, prevLEDsState, dev>>

Inc(ch, ok) ==
    /\ begun
    /\ selectedChannel' = ch
    /\ \E c \in ReadCell(ch) :
        IF incGuard(c)
        THEN \E t \in ReadBack(ch, incTap(c)) :
                /\ tapPointer' = StoreCell(ch, t)
                /\ bus' = dataWriteCalls(ch, t)
                /\ dev' = dataWriteDev(dev, ch, t, ok)
                /\ last' = Done("inc", ch, 0, 0, ok, TRUE)
        ELSE /\ bus' = <<>>
             /\ last' = Done("inc", ch, 0, 0, TRUE, TRUE)
             /\ UNCHANGED <<tapPointer, dev>>
    /\ UNCHANGED <<initialState, nominalResistance, ledsDefined, pins, prevLEDsState>>

Dec(ch, ok) ==
    /\ begun
    /\ selectedChannel' = ch
    /\ \E c \in ReadCell(ch) :
        IF decGuard(c)
        THEN \E t \in ReadBack(ch, decTap(c)) :
                /\ tapPointer' = StoreCell(ch, t)
                /\ bus' = dataWriteCalls(ch, t)
                /\ dev' = dataWriteDev(dev, ch, t, ok)
                /\ last' = Done("dec", ch, 0, 0, ok, TRUE)
        ELSE /\ bus' = <<>>
             /\ last' = Done("dec", ch, 0, 0, TRUE, TRUE)
             /\ UNCHANGED <<tapPointer, dev>>
    /\ UNCHANGED <<initialState, nominalResistance, ledsDefined, pins, prevLEDsState>>

\* the common body of setValue and setTap once tapTarget is computed
SetTo(op, ch, arg, tapTarget, ok) ==
    /\ \E c \in ReadCell(ch) :
        IF setChanged(tapTarget, c)
        THEN /\ selectedChannel' = ch
             /\ bus' = dataWriteCalls(ch, tapTarget)
             /\ dev' = dataWriteDev(dev, ch, tapTarget, ok)
             /\ tapPointer' = StoreCell(ch, TapCell(tapTarget))
             /\ last' = Done(op, ch, arg, Uint8(tapTarget), ok, TRUE)
        ELSE /\ bus' = <<>>
             /\ last' = Done(op, ch, arg, Uint8(tapTarget), TRUE, TRUE)
             /\ UNCHANGED <<selectedChannel, tapPointer, dev>>
    /\ UNCHANGED <<initialState, nominalResistance, ledsDefined, pins, prevLEDsState>>

SetValue(ch, desiredR, ok) ==
    /\ begun
    /\ SetTo("setValue", ch, desiredR, setValueTarget(desiredR, nominalResistance), ok)

SetTap(ch, desiredTap, ok) ==
    /\ begun
    /\ SetTo("setTap", ch, desiredTap, setTapTarget(desiredTap), ok)

SetChannel(ch) ==
    /\ begun
    /\ selectedChannel' = ch
    /\ IF ledsDefined
       THEN /\ pins' = toggleLED(pins, ch)
            /\ prevLEDsState' = toggleLED(prevLEDsState, ch)
       ELSE UNCHANGED <<pins, prevLEDsState>>
    /\ bus' = <<>>
    /\ last' = Done("setChannel", ch, 0, ch, TRUE, TRUE)
    /\ UNCHANGED <<tapPointer, initialState, nominalResistance, ledsDefined, dev>>

ZeroWiper(ch, ok) ==
    /\ begun
    /\ selectedChannel' = ch
    /\ \E t \in ReadBack(ch, zeroTap) :
        /\ tapPointer' = StoreCell(ch, t)
        /\ bus' = dataWriteCalls(ch, t)
        /\ dev' = dataWriteDev(dev, ch, t, ok)
    /\ last' = Done("zeroWiper", ch, 0, 0, ok, TRUE)
    /\ UNCHANGED <<initialState, nominalResistance, ledsDefined, pins, prevLEDsState>>

MaxWiper(ch, ok) ==
    /\ begun
    /\ selectedChannel' = ch
    /\ \E t \in ReadBack(ch, maxTap) :
        /\ tapPointer' = StoreCell(ch, t)
        /\ bus' = dataWriteCalls(ch, t)
        /\ dev' = dataWriteDev(dev, ch, t, ok)
    /\ last' = Done("maxWiper", ch, 0, 0, ok, TRUE)
    /\ UNCHANGED <<initialState, nominalResistance, ledsDefined, pins, prevLEDsState>>

Taps(ch) ==
    /\ begun
    /\ selectedChannel' = ch
    /\ bus' = <<>>
    /\ last' = Done("taps", ch, 0, tapPointer[ch], TRUE, TRUE)
    /\ UNCHANGED <<tapPointer, initialState, nominalResistance, ledsDefined, pins,
                   prevLEDsState, dev>>

SwitchPot(ch, st, got, ok) ==
    LET acrValue == IF got THEN ToChar(dev[ACR]) ELSE 0
        instr == shdnInstr(acrValue, st)
    IN  /\ begun
        /\ selectedChannel' = ch
        /\ bus' = ReadCalls(ACR, got, dev[ACR])
                    \o <<BeginTx, WriteByte(ACR), WriteByte(instr), EndTx(TRUE)>>
        /\ dev' = IF ok THEN [dev EXCEPT ![ACR] = instr] ELSE dev
        /\ last' = Done("switchPot", ch, st, 0, ok, got)
        /\ UNCHANGED <<tapPointer, initialState, nominalResistance, ledsDefined, pins,
                       prevLEDsState>>

(***************************************************************************)
(* Specifications                                                          *)
(***************************************************************************)
\* Spec: begin once, then the wiper and cursor operations in any order, on a
\* bus where every transaction succeeds.  Runs are not tracked.
Quiet == UNCHANGED <<run, nops>>

Next ==
    \/ \E nomRes \in NomResValues : ~begun /\ Begin(nomRes, 0..2) /\ Quiet
    \/ \E ch \in Channels : Inc(ch, TRUE) /\ Quiet
    \/ \E ch \in Channels : Dec(ch, TRUE) /\ Quiet
    \/ \E ch \in Channels, desiredR \in DesiredRs : SetValue(ch, desiredR, TRUE) /\ Quiet
    \/ \E ch \in Channels, desiredTap \in TapArgs : SetTap(ch, desiredTap, TRUE) /\ Quiet
    \/ \E ch \in Channels : SetChannel(ch) /\ Quiet
    \/ \E ch \in Channels : ZeroWiper(ch, TRUE) /\ Quiet
    \/ \E ch \in Channels : MaxWiper(ch, TRUE) /\ Quiet
    \/ \E ch \in Channels : Taps(ch) /\ Quiet

Spec == Init /\ [][Next]_vars

\* SpecRun: begin, then one call repeated (the same operation, channel and
\* argument), from every wiper position the device may report.
InitRun ==
    /\ InitDriver
    /\ DevInit((0..TPL0102_TAP_NUMBER) \X {0, TPL0102_TAP_NUMBER}, DevAcrValues)

Repeated ==
    /\ last.op = "begin" \/ SameCall(last, last')
    /\ Tracked
    /\ UNCHANGED nops

NextRun ==
    \/ \E nomRes \in NomResValues : ~begun /\ Begin(nomRes, 0..2) /\ Quiet
    \/ \E ch \in Channels : Inc(ch, TRUE) /\ Repeated
    \/ \E ch \in Channels : Dec(ch, TRUE) /\ Repeated
    \/ \E ch \in Channels, desiredR \in RunDesiredRs : SetValue(ch, desiredR, TRUE) /\ Repeated
    \/ \E ch \in Channels, desiredTap \in RunTapArgs : SetTap(ch, desiredTap, TRUE) /\ Repeated
    \/ \E ch \in Channels : ZeroWiper(ch, TRUE) /\ Repeated
    \/ \E ch \in Channels : MaxWiper(ch, TRUE) /\ Repeated

SpecRun == InitRun /\ [][NextRun]_vars

\* SpecACR: begin, then switchPot (or zeroWiper, or maxWiper) repeated with
\* the same arguments, from every control byte, on a bus where the read-back
\* may come back empty and the write may go unacknowledged.
InitACR == InitDriver /\ DevInit({<<0, 0>>}, Bytes)

NextACR ==
    \/ \E nomRes \in NomResValues : ~begun /\ Begin(nomRes, 0..2) /\ Quiet
    \/ \E ch \in Channels, st \in StArgs, got \in BOOLEAN, ok \in BOOLEAN :
            SwitchPot(ch, st, got, ok) /\ Repeated
    \/ \E ch \in Channels, ok \in BOOLEAN : ZeroWiper(ch, ok) /\ Repeated
    \/ \E ch \in Channels, ok \in BOOLEAN : MaxWiper(ch, ok) /\ Repeated

SpecACR == InitACR /\ [][NextACR]_vars

\* SpecFail: begin (again at any time), then at most MaxOps operations, on a
\* bus where any read-back may come back empty and any write may go
\* unacknowledged.
InitFail == InitDriver /\ DevInit(DevWiperPairs \cup {<<200, 129>>}, DevAcrValues)

Counted ==
    /\ nops < MaxOps
    /\ nops' = IF begun THEN nops + 1 ELSE nops
    /\ Tracked

NextFail ==
    \/ \E nomRes \in NomResValues, answered \in SUBSET (0..2) :
            Begin(nomRes, answered) /\ Counted
    \/ \E ch \in Channels, ok \in BOOLEAN : Inc(ch, ok) /\ Counted
    \/ \E ch \in Channels, ok \in BOOLEAN : Dec(ch, ok) /\ Counted
    \/ \E ch \in Channels, desiredR \in FailDesiredRs, ok \in BOOLEAN :
            SetValue(ch, desiredR, ok) /\ Counted
    \/ \E ch \in Channels, desiredTap \in FailTapArgs, ok \in BOOLEAN :
            SetTap(ch, desiredTap, ok) /\ Counted
    \/ \E ch \in Channels, ok \in BOOLEAN : ZeroWiper(ch, ok) /\ Counted
    \/ \E ch \in Channels, ok \in BOOLEAN : MaxWiper(ch, ok) /\ Counted

SpecFail == InitFail /\ [][NextFail]_vars

\* SpecOob: begin, then the write operations called with a channel index
\* that names neither potentiometer, on a bus where every transaction
\* succeeds.
NextOob ==
    \/ \E nomRes \in NomResValues : ~begun /\ Begin(nomRes, 0..2) /\ Quiet
    \/ \E ch \in OtherChannels : Inc(ch, TRUE) /\ Quiet
    \/ \E ch \in OtherChannels : Dec(ch, TRUE) /\ Quiet
    \/ \E ch \in OtherChannels, desiredTap \in TapArgs : SetTap(ch, desiredTap, TRUE) /\ Quiet
    \/ \E ch \in OtherChannels : ZeroWiper(ch, TRUE) /\ Quiet
    \/ \E ch \in OtherChannels : MaxWiper(ch, TRUE) /\ Quiet

SpecOob == Init /\ [][NextOob]_vars

(***************************************************************************)
(* Properties                                                              *)
(***************************************************************************)
\* the wiper register of a channel, and the single transaction that writes
\* value v to register r
WiperOf(ch) == IF ch = 0 THEN WRA ELSE WRB
OneWrite(r, v) ==
    /\ Len(bus) = 4
    /\ RegWrites(bus) = <<[reg |-> r, val |-> v]>>
InRange(t) == t \in 0..TPL0102_TAP_NUMBER

\* C1: after begin, whatever the operations and their arguments, the mirror
\* of each channel is within [0, TPL0102_TAP_NUMBER].
C1_TapAlwaysInRange ==
    begun => \A ch \in Channels : InRange(tapPointer[ch])

\* C2: after k consecutive inc calls from tap 0 the mirror is
\* min(k, TPL0102_TAP_NUMBER); each of the first TPL0102_TAP_NUMBER calls
\* issues exactly one write of the new position to the channel's wiper
\* register; an inc at TPL0102_TAP_NUMBER issues no bus call and leaves the
\* mirror where it is.
C2_IncrementRun ==
    (last.op = "inc" /\ run.k > 0 /\ run.start \in {0, TPL0102_TAP_NUMBER}) =>
        LET p == run.start + run.k
        IN  /\ tapPointer[last.ch] = Min(p, TPL0102_TAP_NUMBER)
            /\ run.writes = Min(p, TPL0102_TAP_NUMBER) - run.start
            /\ IF p <= TPL0102_TAP_NUMBER
               THEN OneWrite(WiperOf(last.ch), p)
               ELSE bus = <<>>

C2_Witness ==
    /\ last.op = "inc"
    /\ run.start = 0
    /\ run.k = TPL0102_TAP_NUMBER + 1
    /\ run.writes = TPL0102_TAP_NUMBER
    /\ tapPointer[last.ch] = TPL0102_TAP_NUMBER
    /\ bus = <<>>

\* C3: after k consecutive dec calls from tap p the mirror is max(p - k, 0);
\* each call that moves the mirror issues exactly one write of the new
\* position to the channel's wiper register; a dec at 0 issues no bus call
\* and leaves the mirror at 0.
C3_DecrementRun ==
    (last.op = "dec" /\ run.k > 0 /\ InRange(run.start)) =>
        /\ tapPointer[last.ch] = Max(run.start - run.k, 0)
        /\ run.writes = Min(run.k, run.start)
        /\ IF run.k <= run.start
           THEN OneWrite(WiperOf(last.ch), run.start - run.k)
           ELSE bus = <<>>

C3_Witness ==
    /\ last.op = "dec"
    /\ run.start = 2
    /\ run.k = 3
    /\ run.writes = 2
    /\ tapPointer[last.ch] = 0
    /\ bus = <<>>

\* C4: when the write transaction of inc, dec, setTap, setValue, zeroWiper
\* or maxWiper is not acknowledged, the mirror of the channel keeps the value
\* it had before the call.
C4_FailedWriteKeepsMirror ==
    (last.op \in {"inc", "dec", "setTap", "setValue", "zeroWiper", "maxWiper"}
        /\ run.k = 1 /\ ~last.ok) =>
        tapPointer[last.ch] = run.start

\* C5: after a begin whose three read-backs are answered, the mirror of each
\* channel is the byte the device holds in that channel's wiper register,
\* and begin issued one single-byte read of wiper A, of wiper B and of the
\* control register, in this order, and no register write.
C5_BeginSynchronises ==
    (last.op = "begin" /\ last.got) =>
        /\ \A ch \in Channels : tapPointer[ch] = dev[WiperOf(ch)]
        /\ RegReads(bus) = <<[reg |-> WRA, n |-> 1], [reg |-> WRB, n |-> 1],
                             [reg |-> ACR, n |-> 1]>>
        /\ RegWrites(bus) = <<>>

C5_Witness ==
    /\ last.op = "begin"
    /\ last.got
    /\ dev[WRA] = 32
    /\ tapPointer[0] = 32
    /\ tapPointer[1] = 0
    /\ Len(RegReads(bus)) = 3

\* C6 as stated: two setTap(ch, t) calls in a row issue exactly one register
\* write between them, whatever the position before the first call.
C6_TwoCallsOneWrite ==
    (last.op = "setTap" /\ run.k = 2) => run.writes = 1

\* C6 as amended: two setTap(ch, t) calls in a row issue one register write
\* between them when the position before the first call differs from t and
\* none when it equals t; the second call issues no bus call either way.
C6_SecondCallSilent ==
    (last.op = "setTap" /\ run.k = 2) =>
        /\ bus = <<>>
        /\ run.writes = IF run.start = last.arg THEN 0 ELSE 1
        /\ tapPointer[last.ch] = last.arg

C6_Witness ==
    /\ last.op = "setTap"
    /\ run.k = 2
    /\ run.start # last.arg
    /\ run.writes = 1
    /\ bus = <<>>

\* C7: zeroWiper issues exactly one write of 0, and maxWiper exactly one
\* write of TPL0102_TAP_NUMBER, to the channel's wiper register at every call,
\* also when the mirror is there already, and leaves the mirror at that value.
C7_ZeroMaxAlwaysWrite ==
    /\ (last.op = "zeroWiper") =>
        /\ OneWrite(WiperOf(last.ch), 0)
        /\ tapPointer[last.ch] = 0
        /\ run.k > 0 => run.writes = run.k
    /\ (last.op = "maxWiper") =>
        /\ OneWrite(WiperOf(last.ch), TPL0102_TAP_NUMBER)
        /\ tapPointer[last.ch] = TPL0102_TAP_NUMBER
        /\ run.k > 0 => run.writes = run.k

C7_Witness ==
    /\ last.op = "zeroWiper"
    /\ run.start = 0
    /\ run.k = 2
    /\ run.writes = 2
    /\ OneWrite(WiperOf(last.ch), 0)

\* the control byte with the shutdown bit flipped
Toggled(x) ==
    IF (x \div SHUTDOWN_MASK) % 2 = 1 THEN x - SHUTDOWN_MASK ELSE x + SHUTDOWN_MASK
\* the bits of a control byte outside the shutdown bit
Others(x) == x - ((x \div SHUTDOWN_MASK) % 2) * SHUTDOWN_MASK
AcrWritten == RegWrites(bus)[Len(RegWrites(bus))].val

C9_OtherBitsPreserved ==
    (last.op = "switchPot" /\ run.k = 1) =>
        /\ RegReads(bus) = <<[reg |-> ACR, n |-> 1]>>
        /\ Len(RegWrites(bus)) = 1
        /\ RegWrites(bus)[1].reg = ACR
        /\ Others(AcrWritten) = Others(run.start)

\* C10: with the LEDs defined, after every setChannel(ch) the output of
\* channel ch is HIGH and the output of the other channel is LOW.
C10_OneLedOfSelected ==
    (last.op = "setChannel" /\ ledsDefined) =>
        /\ pins[last.ch] = HIGH
        /\ pins[1 - last.ch] = LOW
        /\ selectedChannel = last.ch

C10_Witness ==
    /\ last.op = "setChannel"
    /\ ledsDefined
    /\ last.ch = 1
    /\ pins[1] = HIGH
    /\ pins[0] = LOW

\* C11: every operation that takes a channel argument leaves the cursor at
\* that channel when it returns, also when it issued no bus call.
C11_CursorFollowsChannel ==
    (last.op \in {"inc", "dec", "setValue", "setTap", "setChannel", "zeroWiper",
                  "maxWiper", "taps", "switchPot"}) =>
        selectedChannel = last.ch

\* C12: with the LEDs defined, between operations the one output that is
\* HIGH is the output of the cursor's channel.
C12_LedShowsCursor ==
    ledsDefined =>
        /\ pins[selectedChannel] = HIGH
        /\ pins[1 - selectedChannel] = LOW

\* the tap nearest to desiredR ohms on a track of nomRes ohms
NearestTap(desiredR, nomRes) ==
    CHOOSE t \in 0..TPL0102_TAP_NUMBER :
        /\ (2 * t - 1) * nomRes <= 2 * desiredR * TPL0102_TAP_NUMBER
        /\ 2 * desiredR * TPL0102_TAP_NUMBER < (2 * t + 1) * nomRes

\* C13: setValue(ch, desiredR) with desiredR in [0, nominal resistance]
\* returns the nearest tap, leaves the mirror there, and issues one write of
\* it to the channel's wiper register when it differs from the position
\* before the call and no bus call when it is equal.
C13_SetValueRoundsAndWrites ==
    (/\ last.op = "setValue"
     /\ run.k = 1
     /\ last.arg \in 0..nominalResistance) =>
        LET tapTarget == NearestTap(last.arg, nominalResistance)
        IN  /\ last.ret = tapTarget
            /\ tapPointer[last.ch] = tapTarget
            /\ IF tapTarget # run.start
               THEN OneWrite(WiperOf(last.ch), tapTarget)
               ELSE bus = <<>>

C13_Witness ==
    /\ last.op = "setValue"
    /\ run.k = 1
    /\ last.arg = 2500
    /\ nominalResistance = 10000
    /\ run.start # 16
    /\ OneWrite(WiperOf(last.ch), 16)
    /\ last.ret = 16
    /\ tapPointer[last.ch] = 16

\* the whole number nearest to desiredR * TPL0102_TAP_NUMBER / nomRes, halves
\* away from zero
NearestStep(desiredR, nomRes) ==
    LET Near(d) == CHOOSE t \in 0..(8 * TPL0102_TAP_NUMBER) :
                       /\ (2 * t - 1) * nomRes <= 2 * d * TPL0102_TAP_NUMBER
                       /\ 2 * d * TPL0102_TAP_NUMBER < (2 * t + 1) * nomRes
    IN  IF desiredR >= 0 THEN Near(desiredR) ELSE 0 - Near(0 - desiredR)

\* the target the last setTap or setValue call asked for
AskedTarget ==
    IF last.op = "setTap" THEN last.arg
    ELSE NearestStep(last.arg, nominalResistance)

\* a first setTap or setValue call whose target is outside [0, TPL0102_TAP_NUMBER]
OutOfRangeSet ==
    /\ last.op \in {"setTap", "setValue"}
    /\ run.k = 1
    /\ AskedTarget \notin 0..TPL0102_TAP_NUMBER

C15_FailedReadKeepsMirror ==
    [][(last'.op = "begin" /\ ~last'.got) =>
            \A ch \in Channels : tapPointer'[ch] = tapPointer[ch]]_vars

\* the calls b[i..] are whole transactions, open telling whether one is open
\* before b[i]: a beginTransmission opens one and comes only when none is
\* open, an endTransmission comes only when one is open and closes it when it
\* sends the stop, and none is open at the end
RECURSIVE WellFormedFrom(_, _, _)
WellFormedFrom(b, i, open) ==
    IF i > Len(b) THEN ~open
    ELSE IF b[i] = BeginTx THEN ~open /\ WellFormedFrom(b, i + 1, TRUE)
    ELSE IF b[i] = EndTx(TRUE) THEN open /\ WellFormedFrom(b, i + 1, FALSE)
    ELSE IF b[i] = EndTx(FALSE) THEN open /\ WellFormedFrom(b, i + 1, TRUE)
    ELSE WellFormedFrom(b, i + 1, open)

C17_MirrorTracksDevice ==
    begun => \A ch \in Channels : tapPointer[ch] = dev[WiperOf(ch)]

C17_Witness ==
    /\ last.op = "dec"
    /\ last.ch = 1
    /\ OneWrite(WRB, TPL0102_TAP_NUMBER - 1)
    /\ tapPointer[1] = TPL0102_TAP_NUMBER - 1
    /\ dev[WRB] = TPL0102_TAP_NUMBER - 1
    /\ tapPointer[0] = 0
    /\ dev[WRA] = 0

\* C18: an inc, dec, setTap, setValue, zeroWiper or maxWiper call on channel
\* ch writes no register but ch's wiper register and leaves the mirror and
\* the wiper register of the other channel as they were.
C18_ChannelIsolation ==
    [][(last'.op \in {"inc", "dec", "setTap", "setValue", "zeroWiper", "maxWiper"}) =>
            LET ch == last'.ch
                w == RegWrites(bus')
            IN  /\ \A i \in 1..Len(w) : w[i].reg = WiperOf(ch)
                /\ tapPointer'[1 - ch] = tapPointer[1 - ch]
                /\ dev'[WiperOf(1 - ch)] = dev[WiperOf(1 - ch)]]_vars

C18_Witness ==
    /\ last.op = "inc"
    /\ last.ch = 1
    /\ OneWrite(WRB, 1)
    /\ tapPointer[1] = 1
    /\ dev[WRB] = 1
    /\ tapPointer[0] = 32
    /\ dev[WRA] = 32

\* C19: an inc, dec, setTap, zeroWiper or maxWiper call with a channel index
\* outside {0, 1} writes no register and leaves both mirrors as they were.
C19_OtherChannelWritesNothing ==
    [][(/\ last'.op \in {"inc", "dec", "setTap", "zeroWiper", "maxWiper"}
        /\ last'.ch \notin Channels) =>
            /\ RegWrites(bus') = <<>>
            /\ tapPointer' = tapPointer]_vars

====
